---- MODULE Spec2Model ----
(***************************************************************************)
(* Model of the insurance quote calculator (src/insurance_quote.py with    *)
(* the lookup tables of src/weights and the input classes of src/inputs).  *)
(*                                                                         *)
(* Numbers.  The program computes with Python ints and floats.  Every      *)
(* literal of the program is a finite decimal and the only operations are  *)
(* +, -, * and division by 2 and by 100, so every value is a finite        *)
(* decimal.  The model computes these values exactly: a number is a sign,  *)
(* a magnitude held as base-10000 limbs (least significant first) and an   *)
(* exponent, value = (-1)^neg * mag * 10000^(-exp).  Floating-point        *)
(* rounding (below 1e-9 relative, the tolerance the specification grants)  *)
(* is not modelled.                                                        *)
(***************************************************************************)
EXTENDS Integers, Sequences, FiniteSets, TLC

(***************************************************************************)
(* Exact decimal arithmetic                                                *)
(***************************************************************************)

\* The limb base of the number representation.
Base == 100 * 100

RECURSIVE NatToLimbs(_)
NatToLimbs(n) == IF n = 0 THEN <<>> ELSE <<n % Base>> \o NatToLimbs(n \div Base)

\* Drop the most significant limbs that are zero.
RECURSIVE TrimHigh(_)
TrimHigh(a) ==
    IF a = <<>> THEN <<>>
    ELSE IF a[Len(a)] = 0 THEN TrimHigh(SubSeq(a, 1, Len(a) - 1))
    ELSE a

\* a * Base^k
RECURSIVE ShiftLimbs(_, _)
ShiftLimbs(a, k) == IF k = 0 THEN a ELSE ShiftLimbs(<<0>> \o a, k - 1)

RECURSIVE AddMag(_, _, _)
AddMag(a, b, carry) ==
    IF a = <<>> /\ b = <<>> THEN (IF carry = 0 THEN <<>> ELSE <<carry>>)
    ELSE LET x == IF a = <<>> THEN 0 ELSE Head(a)
             y == IF b = <<>> THEN 0 ELSE Head(b)
             s == x + y + carry
         IN  <<s % Base>> \o AddMag(IF a = <<>> THEN <<>> ELSE Tail(a),
                                    IF b = <<>> THEN <<>> ELSE Tail(b),
                                    s \div Base)

\* a - b for magnitudes with a >= b
RECURSIVE SubMag(_, _, _)
SubMag(a, b, borrow) ==
    IF a = <<>> THEN <<>>
    ELSE LET y == IF b = <<>> THEN 0 ELSE Head(b)
             d == Head(a) - y - borrow
         IN  <<IF d < 0 THEN d + Base ELSE d>>
             \o SubMag(Tail(a), IF b = <<>> THEN <<>> ELSE Tail(b),
                       IF d < 0 THEN 1 ELSE 0)

\* -1, 0, 1 as a < b, a = b, a > b, for trimmed magnitudes
RECURSIVE CmpMag(_, _)
CmpMag(a, b) ==
    IF Len(a) # Len(b) THEN (IF Len(a) < Len(b) THEN -1 ELSE 1)
    ELSE IF a = <<>> THEN 0
    ELSE IF a[Len(a)] # b[Len(b)] THEN (IF a[Len(a)] < b[Len(b)] THEN -1 ELSE 1)
    ELSE CmpMag(SubSeq(a, 1, Len(a) - 1), SubSeq(b, 1, Len(b) - 1))

RECURSIVE MulLimb(_, _, _)
MulLimb(a, d, carry) ==
    IF a = <<>> THEN (IF carry = 0 THEN <<>> ELSE <<carry>>)
    ELSE LET p == Head(a) * d + carry
         IN  <<p % Base>> \o MulLimb(Tail(a), d, p \div Base)

RECURSIVE MulMag(_, _)
MulMag(a, b) ==
    IF b = <<>> THEN <<>>
    ELSE TrimHigh(AddMag(MulLimb(a, Head(b), 0), <<0>> \o MulMag(a, Tail(b)), 0))

\* The canonical form of a number: no zero limb at either end, zero is +0.
RECURSIVE Norm(_)
Norm(x) ==
    LET m == TrimHigh(x.mag)
    IN  IF m = <<>> THEN [neg |-> FALSE, mag |-> <<>>, exp |-> 0]
        ELSE IF x.exp > 0 /\ Head(m) = 0
             THEN Norm([neg |-> x.neg, mag |-> Tail(m), exp |-> x.exp - 1])
        ELSE [neg |-> x.neg, mag |-> m, exp |-> x.exp]

RECURSIVE Pow10(_)
Pow10(k) == IF k = 0 THEN 1 ELSE 10 * Pow10(k - 1)

\* The integer n.
Int2Num(n) ==
    Norm([neg |-> n < 0, mag |-> NatToLimbs(IF n < 0 THEN -n ELSE n), exp |-> 0])

\* The decimal literal n * 10^(-places): Lit(15, 3) is 0.015.
Lit(n, places) ==
    LET k == (places + 3) \div 4
    IN  Norm([neg |-> n < 0,
              mag |-> NatToLimbs((IF n < 0 THEN -n ELSE n) * Pow10(4 * k - places)),
              exp |-> k])

Neg(x) == Norm([x EXCEPT !.neg = ~x.neg])

Mul(x, y) ==
    Norm([neg |-> x.neg # y.neg, mag |-> MulMag(x.mag, y.mag), exp |-> x.exp + y.exp])

Add(x, y) ==
    LET e  == IF x.exp > y.exp THEN x.exp ELSE y.exp
        mx == ShiftLimbs(x.mag, e - x.exp)
        my == ShiftLimbs(y.mag, e - y.exp)
        c  == CmpMag(mx, my)
    IN  IF x.neg = y.neg
        THEN Norm([neg |-> x.neg, mag |-> AddMag(mx, my, 0), exp |-> e])
        ELSE IF c >= 0
             THEN Norm([neg |-> x.neg, mag |-> SubMag(mx, my, 0), exp |-> e])
             ELSE Norm([neg |-> y.neg, mag |-> SubMag(my, mx, 0), exp |-> e])

Sub(x, y) == Add(x, Neg(y))

\* x < y
Less(x, y) == Sub(x, y).neg

\* x <= y
Leq(x, y) == ~Less(y, x)

(***************************************************************************)
(* Python values                                                           *)
(***************************************************************************)

\* An optional value: None is the empty tuple, a value v is <<v>>.
None == <<>>
Some(v) == <<v>>
IsNone(o) == o = <<>>
Get(o) == o[1]

\* A line sent to the logger: its level, its text and the name the text is about
\* (a key, an exception, or the path of an attribute), "" when there is none.
LogLine(level, text, about) == <<level, text, about>>

\* The f-string f"{path}.{attr}".
FullPath(path, attr) == <<path, ".", attr>>

\* The outcome of a call: it returns a value or raises an exception; log holds
\* the lines it sent to the logger, in order.
Return(v, lg) == [status |-> "return", exc |-> "", value |-> Some(v), log |-> lg]
Raise(e, lg) == [status |-> "raise", exc |-> e, value |-> None, log |-> lg]

\* Between calls there is no outcome.
NoOutcome == [status |-> "", exc |-> "", value |-> None, log |-> <<>>]

\* dict(pairs) for a dict display: a later pair with the same key replaces an
\* earlier one.
Dict(pairs) ==
    [k \in {pairs[i][1] : i \in 1..Len(pairs)} |->
        LET i == CHOOSE j \in 1..Len(pairs) :
                    /\ pairs[j][1] = k
                    /\ \A l \in (j + 1)..Len(pairs) : pairs[l][1] # k
        IN  pairs[i][2]]

(***************************************************************************)
(* The lookup tables: src/weights                                          *)
(***************************************************************************)

CoverageType_LIABILITY == "liability"
CoverageType_FULL_COVERAGE == "full_coverage"
CoverageType_COLLISION_ONLY == "collision_only"

\* The values of the CoverageType enumeration.
CoverageType == {CoverageType_LIABILITY, CoverageType_FULL_COVERAGE,
                 CoverageType_COLLISION_ONLY}

AddOnKeys_ROADSIDE_ASSISTANCE == "roadside_assistance"
AddOnKeys_RENTAL_REIMBURSEMENT == "rental_reimbursement"
AddOnKeys_GLASS_COVERAGE == "glass_coverage"
AddOnKeys_GAP_COVERAGE == "gap_coverage"

AddOnKeys == {AddOnKeys_ROADSIDE_ASSISTANCE, AddOnKeys_RENTAL_REIMBURSEMENT,
              AddOnKeys_GLASS_COVERAGE, AddOnKeys_GAP_COVERAGE}

AddOnWeights_ROADSIDE_ASSISTANCE == Lit(15, 2)
AddOnWeights_RENTAL_REIMBURSEMENT == Lit(1, 1)
AddOnWeights_GLASS_COVERAGE == Lit(5, 2)
AddOnWeights_GAP_COVERAGE == Lit(5, 2)

\* The dict display of PolicyAddOnMap.POLICY_ADD_ON_MAP, pair by pair.
PolicyAddOnMapDisplay ==
    << <<CoverageType_LIABILITY,
         [weight |-> Lit(10, 1),
          add_ons |-> Dict(<<
              <<AddOnKeys_ROADSIDE_ASSISTANCE, AddOnWeights_ROADSIDE_ASSISTANCE>>,
              <<AddOnKeys_RENTAL_REIMBURSEMENT, AddOnWeights_RENTAL_REIMBURSEMENT>>,
              <<AddOnKeys_GLASS_COVERAGE, AddOnWeights_GLASS_COVERAGE>> >>)]>>,
       <<CoverageType_FULL_COVERAGE,
         [weight |-> Lit(15, 1),
          add_ons |-> Dict(<<
              <<AddOnKeys_ROADSIDE_ASSISTANCE, AddOnWeights_ROADSIDE_ASSISTANCE>>,
              <<AddOnKeys_RENTAL_REIMBURSEMENT, AddOnWeights_RENTAL_REIMBURSEMENT>>,
              <<AddOnKeys_GAP_COVERAGE, AddOnWeights_GAP_COVERAGE>>,
              <<AddOnKeys_GLASS_COVERAGE, AddOnWeights_GLASS_COVERAGE>> >>)]>>,
       <<CoverageType_COLLISION_ONLY,
         [weight |-> Lit(12, 1),
          add_ons |-> Dict(<<
              <<AddOnKeys_RENTAL_REIMBURSEMENT, AddOnWeights_RENTAL_REIMBURSEMENT>>,
              <<AddOnKeys_GLASS_COVERAGE, AddOnWeights_GLASS_COVERAGE>> >>)]>> >>

DiscountKeys_MULTI_POLICY == "multi_policy"
DiscountKeys_SAFE_DRIVER == "safe_driver"
DiscountKeys_LOW_MILEAGE == "low_mileage"
DiscountKeys_ANTI_THEFT == "anti_theft"

DiscountKeys == {DiscountKeys_MULTI_POLICY, DiscountKeys_SAFE_DRIVER,
                 DiscountKeys_LOW_MILEAGE, DiscountKeys_ANTI_THEFT}

\* The safe-driver weight its comment in the source announces, 15%, in place of
\* the 0.12 the code assigns (not the code).
DiscountWeights_SAFE_DRIVER_as_commented == Lit(15, 2)

DiscountWeights_MULTI_POLICY == Lit(1, 1)
DiscountWeights_SAFE_DRIVER == Lit(12, 2)
DiscountWeights_LOW_MILEAGE == Lit(5, 2)
DiscountWeights_ANTI_THEFT == Lit(3, 2)

\* A display whose third pair repeats the liability key (not the code).
PolicyDiscountMapDisplay_repeated_key ==
    << <<CoverageType_LIABILITY,
         Dict(<< <<DiscountKeys_MULTI_POLICY, DiscountWeights_MULTI_POLICY>>,
                 <<DiscountKeys_LOW_MILEAGE, DiscountWeights_LOW_MILEAGE>> >>)>>,
       <<CoverageType_FULL_COVERAGE,
         Dict(<< <<DiscountKeys_MULTI_POLICY, DiscountWeights_MULTI_POLICY>>,
                 <<DiscountKeys_SAFE_DRIVER, DiscountWeights_SAFE_DRIVER>>,
                 <<DiscountKeys_ANTI_THEFT, DiscountWeights_ANTI_THEFT>> >>)>>,
       <<CoverageType_LIABILITY,
         Dict(<< <<DiscountKeys_SAFE_DRIVER, DiscountWeights_SAFE_DRIVER>>,
                 <<DiscountKeys_LOW_MILEAGE, DiscountWeights_LOW_MILEAGE>> >>)>> >>

\* The dict display of PolicyDiscountMap.POLICY_DISCOUNT_MAP, pair by pair.
PolicyDiscountMapDisplay ==
    << <<CoverageType_LIABILITY,
         Dict(<< <<DiscountKeys_MULTI_POLICY, DiscountWeights_MULTI_POLICY>>,
                 <<DiscountKeys_LOW_MILEAGE, DiscountWeights_LOW_MILEAGE>> >>)>>,
       <<CoverageType_FULL_COVERAGE,
         Dict(<< <<DiscountKeys_MULTI_POLICY, DiscountWeights_MULTI_POLICY>>,
                 <<DiscountKeys_SAFE_DRIVER, DiscountWeights_SAFE_DRIVER>>,
                 <<DiscountKeys_ANTI_THEFT, DiscountWeights_ANTI_THEFT>> >>)>>,
       <<CoverageType_COLLISION_ONLY,
         Dict(<< <<DiscountKeys_SAFE_DRIVER, DiscountWeights_SAFE_DRIVER>>,
                 <<DiscountKeys_LOW_MILEAGE, DiscountWeights_LOW_MILEAGE>> >>)>> >>

(***************************************************************************)
(* Risk scorers and aggregators: src/insurance_quote.py                    *)
(* Integer arguments arrive as TLA+ integers, scores as exact decimals.    *)
(***************************************************************************)

calc_violation_points(violations) ==
    Add(Mul(Int2Num(violations), Lit(1, 2)), Lit(5, 3))

calc_theft_score(vehicle_theft_rate_score, location_risk_score, anti_theft_feature_score) ==
    Sub(Add(Int2Num(vehicle_theft_rate_score), location_risk_score),
        Int2Num(anti_theft_feature_score))

\* vehicle_age / 2 is true division: exactly half.
calc_repair_score(brand_type_score, repair_complex_score, parts_score, vehicle_age) ==
    Add(Int2Num(brand_type_score + repair_complex_score + parts_score),
        Mul(Int2Num(vehicle_age), Lit(5, 1)))

calc_saftey_score(crash_test_ratings, active_saftey_features, passive_saftey_features) ==
    Int2Num(crash_test_ratings + active_saftey_features * 2 + passive_saftey_features)

calc_accident_points(at_fault_major, at_fault_minor, no_fault, hit_n_runs, duis) ==
    Add(Add(Add(Add(Int2Num(at_fault_major * 3),
                    Mul(Int2Num(at_fault_minor), Lit(15, 1))),
                Mul(Int2Num(no_fault), Lit(5, 1))),
            Int2Num(hit_n_runs * 4)),
        Int2Num(duis * 5))

calc_crime_score(crime_level_factor, anti_theft_adjuestment) ==
    Int2Num(crime_level_factor - anti_theft_adjuestment)

\* The base rate of the legacy module src/insurance_qoute.py (not this module's).
calc_base_rate_legacy == Int2Num(500)
calc_base_rate == Int2Num(320)

\* The age bands with 65 counted in the middle band (not the code).
age_adjustment_inclusive(age) ==
    IF age < 25 THEN Lit(15, 2)
    ELSE IF age <= 65 THEN Lit(0, 1)
    ELSE Lit(10, 2)

\* The age band of calc_driver_risk.
age_adjustment(age) ==
    IF age < 25 THEN Lit(15, 2)
    ELSE IF age < 65 THEN Lit(0, 1)
    ELSE Lit(10, 2)

\* A variant in which clean years lower the risk: the term is added, not
\* subtracted (not the code).
calc_driver_risk_years_lower(accident_points, violation_points, years_clean, age) ==
    LET years_clean_points == Neg(Mul(Int2Num(years_clean), Lit(1, 2)))
    IN  Add(Add(Add(Add(Int2Num(1), Mul(Lit(2, 2), accident_points)),
                    Mul(Lit(15, 3), violation_points)),
                Mul(Lit(1, 2), years_clean_points)),
            age_adjustment(age))

\* A variant with the negation of years_clean_points dropped, so that only one
\* minus sign is left on the clean-years term (not the code).
calc_driver_risk_single_negation(accident_points, violation_points, years_clean, age) ==
    LET years_clean_points == Mul(Int2Num(years_clean), Lit(1, 2))
    IN  Add(Sub(Add(Add(Int2Num(1), Mul(Lit(2, 2), accident_points)),
                    Mul(Lit(15, 3), violation_points)),
                Mul(Lit(1, 2), years_clean_points)),
            age_adjustment(age))

calc_driver_risk(accident_points, violation_points, years_clean, age) ==
    LET years_clean_points == Neg(Mul(Int2Num(years_clean), Lit(1, 2)))
    IN  Add(Sub(Add(Add(Int2Num(1), Mul(Lit(2, 2), accident_points)),
                    Mul(Lit(15, 3), violation_points)),
                Mul(Lit(1, 2), years_clean_points)),
            age_adjustment(age))

\* (...) / 100 is true division: exactly a hundredth.
calc_vehicle_risk(repair_score, theft_score, saftey_score) ==
    Add(Int2Num(1),
        Mul(Sub(Add(repair_score, theft_score), saftey_score), Lit(1, 2)))

\* A variant without the anchor 1 (not the code).
calc_location_risk_unanchored(accident_points, crime_Score) ==
    Add(Mul(Lit(2, 2), accident_points), Mul(Lit(25, 3), crime_Score))

calc_location_risk(accident_points, crime_Score) ==
    Add(Add(Int2Num(1), Mul(Lit(2, 2), accident_points)),
        Mul(Lit(25, 3), crime_Score))

(***************************************************************************)
(* Policy and discount resolvers: src/insurance_quote.py                   *)
(* A coverage type is an optional string and a list an optional sequence,  *)
(* since PolicyInputs and DiscountsInputs default both to None.            *)
(***************************************************************************)

\* d.get(key, None) for an optional string key.
dict_get(d, key) ==
    IF IsNone(key) THEN None
    ELSE IF Get(key) \in DOMAIN d THEN Some(d[Get(key)])
    ELSE None

\* The for loop of calc_policy_adjustment from element i on: a key missing from
\* the sub-table raises KeyError out of the loop, into the handler around it.
RECURSIVE add_on_loop(_, _, _, _)
add_on_loop(add_ons_table, add_ons, i, adjustments) ==
    IF i > Len(add_ons) THEN [adjustments |-> adjustments, exc |-> ""]
    ELSE IF add_ons[i] \notin DOMAIN add_ons_table
         THEN [adjustments |-> adjustments, exc |-> "KeyError"]
    ELSE add_on_loop(add_ons_table, add_ons, i + 1,
                     Add(adjustments, add_ons_table[add_ons[i]]))

\* The try statement of calc_policy_adjustment: iterating None raises TypeError.
add_on_try(add_ons_table, add_ons) ==
    IF IsNone(add_ons) THEN [adjustments |-> Int2Num(0), exc |-> "TypeError"]
    ELSE add_on_loop(add_ons_table, Get(add_ons), 1, Int2Num(0))

\* A variant that returns the adjustments without the base weight (not the code).
calc_policy_adjustment_no_base(policy_map, policy_type, add_ons) ==
    LET policy_obj == dict_get(policy_map, policy_type)
    IN  IF IsNone(policy_obj) THEN Raise("TypeError", <<>>)
        ELSE LET r == add_on_try(Get(policy_obj).add_ons, add_ons)
             IN  Return(r.adjustments, <<>>)

\* A variant that takes a missing add-on list for an invalid request and
\* answers with the sentinel -1 (not the code).
calc_policy_adjustment_none_sentinel(policy_map, policy_type, add_ons) ==
    LET policy_obj == dict_get(policy_map, policy_type)
    IN  IF IsNone(policy_obj)
        THEN Raise("TypeError", <<>>)
        ELSE IF Get(policy_obj).weight = Int2Num(-1) \/ IsNone(add_ons)
             THEN Return(Int2Num(-1),
                         <<LogLine("WARNING", "Could not extract policy weight due to invalid key", "")>>)
             ELSE Return(Add(Get(policy_obj).weight,
                             add_on_try(Get(policy_obj).add_ons, add_ons).adjustments), <<>>)

calc_policy_adjustment(policy_map, policy_type, add_ons) ==
    LET policy_obj == dict_get(policy_map, policy_type)
    IN  IF IsNone(policy_obj)
        THEN \* policy_obj["weight"] with policy_obj None
             Raise("TypeError", <<>>)
        ELSE LET policy_weight == Get(policy_obj).weight
             IN  IF policy_weight = Int2Num(-1)
                 THEN Return(Int2Num(-1),
                             <<LogLine("WARNING", "Could not extract policy weight due to invalid key", "")>>)
                 ELSE LET r == add_on_try(Get(policy_obj).add_ons, add_ons)
                      IN  Return(Add(policy_weight, r.adjustments),
                                 IF r.exc = "" THEN <<>>
                                 ELSE <<LogLine("ERROR", "Failed to calculate policy adjustment", r.exc)>>)

\* The for loop of calc_discounts stopping at the first missing key (not the code).
RECURSIVE discount_loop_stopping(_, _, _, _, _)
discount_loop_stopping(discount_obj, discounts, i, discount_total, lg) ==
    IF i > Len(discounts) THEN [discount_total |-> discount_total, log |-> lg]
    ELSE IF discounts[i] \in DOMAIN discount_obj
         THEN discount_loop_stopping(discount_obj, discounts, i + 1,
                                     Add(discount_total, discount_obj[discounts[i]]), lg)
    ELSE [discount_total |-> discount_total,
          log |-> Append(lg, LogLine("WARNING", "Discount key not found for policy type", discounts[i]))]

\* The for loop of calc_discounts from element i on: a key missing from the
\* sub-table is logged and skipped.
RECURSIVE discount_loop(_, _, _, _, _)
discount_loop(discount_obj, discounts, i, discount_total, lg) ==
    IF i > Len(discounts) THEN [discount_total |-> discount_total, log |-> lg]
    ELSE IF discounts[i] \in DOMAIN discount_obj
         THEN discount_loop(discount_obj, discounts, i + 1,
                            Add(discount_total, discount_obj[discounts[i]]), lg)
    ELSE discount_loop(discount_obj, discounts, i + 1, discount_total,
                       Append(lg, LogLine("WARNING", "Discount key not found for policy type", discounts[i])))

calc_discounts(discount_map, policy_type, discounts) ==
    LET discount_obj == dict_get(discount_map, policy_type)
    IN  IF IsNone(discount_obj)
        THEN Return(Int2Num(0),
                    <<LogLine("WARNING", "Invalid policy type for discount calculation", "")>>)
        ELSE IF IsNone(discounts)
             THEN \* iterating None raises TypeError inside the try
                  Return(Int2Num(0), <<LogLine("ERROR", "Failed to calculate discounts", "TypeError")>>)
        ELSE LET r == discount_loop(Get(discount_obj), Get(discounts), 1, Int2Num(0), <<>>)
             IN  Return(r.discount_total, r.log)

(***************************************************************************)
(* The default-value audit: src/default_checker.py                         *)
(***************************************************************************)

\* The attributes of each input class in the order __init__ sets them, with the
\* type of value each holds in this model.
DriverInputsAttrs ==
    << <<"at_fault_major", "int">>, <<"at_fault_minor", "int">>, <<"no_fault", "int">>,
       <<"hit_n_runs", "int">>, <<"duis", "int">>, <<"age", "int">>,
       <<"years_clean", "int">>, <<"violations", "int">> >>

VehicleInputsAttrs ==
    << <<"brand_type_score", "int">>, <<"repair_complexity_score", "int">>,
       <<"parts_score", "int">>, <<"vehicle_age", "int">>, <<"theft_score", "int">>,
       <<"anti_theft_feature_score", "int">>, <<"crash_test_rating", "int">>,
       <<"active_safety_features", "int">>, <<"passive_safety_features", "int">> >>

LocationInputsAttrs ==
    << <<"crime_level_factor", "int">>, <<"anti_theft_adjustment", "int">> >>

PolicyInputsAttrs == << <<"coverage_type", "str">>, <<"add_ons", "list">> >>

\* value.strip() == ""
IsBlank(str) == str \in {"", " "}

\* The log line check_defaults emits for one attribute, if any.
check_value(type, value, full_path) ==
    IF type = "int"
    THEN (IF value = -1
          THEN <<LogLine("WARNING", "is using default value -1", full_path)>> ELSE <<>>)
    ELSE IF IsNone(value)
         THEN <<LogLine("WARNING", "is None", full_path)>>
    ELSE IF type = "str"
         THEN (IF IsBlank(Get(value))
               THEN <<LogLine("WARNING", "is not set", full_path)>> ELSE <<>>)
    ELSE (IF Len(Get(value)) = 0
          THEN <<LogLine("WARNING", "list is empty or not set", full_path)>> ELSE <<>>)

RECURSIVE check_attrs(_, _, _, _)
check_attrs(obj, attrs, i, path) ==
    IF i > Len(attrs) THEN <<>>
    ELSE check_value(attrs[i][2], obj[attrs[i][1]], FullPath(path, attrs[i][1]))
         \o check_attrs(obj, attrs, i + 1, path)

\* check_defaults(obj, path, logger): the log lines of one traversal.  It reads
\* the attributes and writes none.
check_defaults(obj, attrs, path) == check_attrs(obj, attrs, 1, path)

(***************************************************************************)
(* The quote composer: src/insurance_quote.py                              *)
(***************************************************************************)

\* The dict calculate_quote returns.
QuoteResult(bp, dr, vr, lr, policy_adjustment, dd, repair_score, theft_score, safety_score) ==
    LET quote == Mul(Mul(Mul(Mul(bp, dr), vr), lr), policy_adjustment)
        discounted_total == Mul(quote, dd)
        adjusted_quote == Sub(quote, discounted_total)
    IN  [base_rate |-> bp,
         original_quote |-> quote,
         total_discount |-> discounted_total,
         quote |-> adjusted_quote,
         weights |-> [driver_risk |-> dr, vehicle_risk |-> vr, location_risk |-> lr,
                      policy_adjustment |-> policy_adjustment, discount |-> dd],
         scores |-> [repair_score |-> repair_score, theft_score |-> theft_score,
                     safety_score |-> safety_score]]

\* calculate_quote with the theft score taken before the location risk exists:
\* it is handed the crime score instead (not the code).
calculate_quote_theft_before_location(policy_map, discount_map, quote_inputs_ctx) ==
    LET driver_inputs == quote_inputs_ctx.driver_inputs
        vehicle_inputs == quote_inputs_ctx.vehicle_inputs
        location_inputs == quote_inputs_ctx.location_inputs
        policy_inputs == quote_inputs_ctx.policy_inputs
        discounts_inputs == quote_inputs_ctx.discount_inputs
        audit == check_defaults(driver_inputs, DriverInputsAttrs, "driver_inputs")
                 \o check_defaults(vehicle_inputs, VehicleInputsAttrs, "vehicle_inputs")
                 \o check_defaults(location_inputs, LocationInputsAttrs, "location_inputs")
                 \o check_defaults(policy_inputs, PolicyInputsAttrs, "policy_inputs")
        bp == calc_base_rate
        accident_points ==
            calc_accident_points(driver_inputs.at_fault_major, driver_inputs.at_fault_minor,
                                 driver_inputs.no_fault, driver_inputs.hit_n_runs,
                                 driver_inputs.duis)
        violation_points == calc_violation_points(driver_inputs.violations)
        dr == calc_driver_risk(accident_points, violation_points,
                               driver_inputs.years_clean, driver_inputs.age)
        crime_score == calc_crime_score(location_inputs.crime_level_factor,
                                        location_inputs.anti_theft_adjustment)
        lr == calc_location_risk(accident_points, crime_score)
        repair_score ==
            calc_repair_score(vehicle_inputs.brand_type_score,
                              vehicle_inputs.repair_complexity_score,
                              vehicle_inputs.parts_score, vehicle_inputs.vehicle_age)
        theft_score == calc_theft_score(vehicle_inputs.theft_score, crime_score,
                                        vehicle_inputs.anti_theft_feature_score)
        safety_score ==
            calc_saftey_score(vehicle_inputs.crash_test_rating,
                              vehicle_inputs.active_safety_features,
                              vehicle_inputs.passive_safety_features)
        vr == calc_vehicle_risk(repair_score, theft_score, safety_score)
        pa == calc_policy_adjustment(policy_map, policy_inputs.coverage_type,
                                     policy_inputs.add_ons)
        dd == calc_discounts(discount_map, policy_inputs.coverage_type,
                             discounts_inputs.discounts)
    IN  IF pa.status = "raise"
        THEN \* the exception leaves calculate_quote: nothing catches it
             Raise(pa.exc, audit \o pa.log)
        ELSE LET result == QuoteResult(bp, dr, vr, lr, Get(pa.value), Get(dd.value),
                                       repair_score, theft_score, safety_score)
             IN  Return(result,
                        audit \o pa.log \o dd.log
                        \o <<LogLine("INFO", "bp, dr, vr, lr, pa, dd", ""),
                             LogLine("INFO", "Quote, Discounted", "")>>)

calculate_quote(policy_map, discount_map, quote_inputs_ctx) ==
    LET driver_inputs == quote_inputs_ctx.driver_inputs
        vehicle_inputs == quote_inputs_ctx.vehicle_inputs
        location_inputs == quote_inputs_ctx.location_inputs
        policy_inputs == quote_inputs_ctx.policy_inputs
        discounts_inputs == quote_inputs_ctx.discount_inputs
        audit == check_defaults(driver_inputs, DriverInputsAttrs, "driver_inputs")
                 \o check_defaults(vehicle_inputs, VehicleInputsAttrs, "vehicle_inputs")
                 \o check_defaults(location_inputs, LocationInputsAttrs, "location_inputs")
                 \o check_defaults(policy_inputs, PolicyInputsAttrs, "policy_inputs")
        bp == calc_base_rate
        accident_points ==
            calc_accident_points(driver_inputs.at_fault_major, driver_inputs.at_fault_minor,
                                 driver_inputs.no_fault, driver_inputs.hit_n_runs,
                                 driver_inputs.duis)
        violation_points == calc_violation_points(driver_inputs.violations)
        dr == calc_driver_risk(accident_points, violation_points,
                               driver_inputs.years_clean, driver_inputs.age)
        crime_score == calc_crime_score(location_inputs.crime_level_factor,
                                        location_inputs.anti_theft_adjustment)
        lr == calc_location_risk(accident_points, crime_score)
        repair_score ==
            calc_repair_score(vehicle_inputs.brand_type_score,
                              vehicle_inputs.repair_complexity_score,
                              vehicle_inputs.parts_score, vehicle_inputs.vehicle_age)
        theft_score == calc_theft_score(vehicle_inputs.theft_score, lr,
                                        vehicle_inputs.anti_theft_feature_score)
        safety_score ==
            calc_saftey_score(vehicle_inputs.crash_test_rating,
                              vehicle_inputs.active_safety_features,
                              vehicle_inputs.passive_safety_features)
        vr == calc_vehicle_risk(repair_score, theft_score, safety_score)
        pa == calc_policy_adjustment(policy_map, policy_inputs.coverage_type,
                                     policy_inputs.add_ons)
        dd == calc_discounts(discount_map, policy_inputs.coverage_type,
                             discounts_inputs.discounts)
    IN  IF pa.status = "raise"
        THEN \* the exception leaves calculate_quote: nothing catches it
             Raise(pa.exc, audit \o pa.log)
        ELSE LET result == QuoteResult(bp, dr, vr, lr, Get(pa.value), Get(dd.value),
                                       repair_score, theft_score, safety_score)
             IN  Return(result,
                        audit \o pa.log \o dd.log
                        \o <<LogLine("INFO", "bp, dr, vr, lr, pa, dd", ""),
                             LogLine("INFO", "Quote, Discounted", "")>>)

(***************************************************************************)
(* Inputs                                                                  *)
(***************************************************************************)

\* The largest value tried for a count or a score of a profile.
MaxScore == 2
\* The longest add-on list and the longest discount list tried.
MaxAddOns == 3
MaxDiscounts == 3
\* The largest age and the largest number of clean years tried on calc_driver_risk.
MaxAge == 66
MaxYearsClean == 2

SeqsUpTo(S, n) == UNION {[1..k -> S] : k \in 0..n}

\* The request of run_test_quote (src/test.py).
TestDriverInputs ==
    [at_fault_major |-> 1, at_fault_minor |-> 1, no_fault |-> 2, hit_n_runs |-> 0,
     duis |-> 0, age |-> 23, years_clean |-> 5, violations |-> 1]

TestLocationInputs == [crime_level_factor |-> 4, anti_theft_adjustment |-> 2]

TestVehicleInputs ==
    [brand_type_score |-> 3, repair_complexity_score |-> 2, parts_score |-> 4,
     vehicle_age |-> 15, theft_score |-> 5, anti_theft_feature_score |-> 2,
     crash_test_rating |-> 4, active_safety_features |-> 2, passive_safety_features |-> 3]

TestPolicyInputs ==
    [coverage_type |-> Some(CoverageType_FULL_COVERAGE),
     add_ons |-> Some(<<AddOnKeys_ROADSIDE_ASSISTANCE, AddOnKeys_RENTAL_REIMBURSEMENT>>)]

\* DiscountsInputs.get_discounts: the keys of the flags that are set, in this order.
get_discounts(multi_policy, safe_driver, low_mileage, anti_theft) ==
    (IF multi_policy THEN <<DiscountKeys_MULTI_POLICY>> ELSE <<>>)
    \o (IF safe_driver THEN <<DiscountKeys_SAFE_DRIVER>> ELSE <<>>)
    \o (IF low_mileage THEN <<DiscountKeys_LOW_MILEAGE>> ELSE <<>>)
    \o (IF anti_theft THEN <<DiscountKeys_ANTI_THEFT>> ELSE <<>>)

TestDiscountsInputs == [discounts |-> Some(get_discounts(TRUE, TRUE, FALSE, TRUE))]

TestQuoteInputs ==
    [driver_inputs |-> TestDriverInputs, vehicle_inputs |-> TestVehicleInputs,
     location_inputs |-> TestLocationInputs, policy_inputs |-> TestPolicyInputs,
     discount_inputs |-> TestDiscountsInputs]

\* The objects the constructors build without arguments.
DefaultDriverInputs ==
    [at_fault_major |-> -1, at_fault_minor |-> -1, no_fault |-> -1, hit_n_runs |-> -1,
     duis |-> -1, age |-> -1, years_clean |-> 1, violations |-> -1]

DefaultVehicleInputs ==
    [brand_type_score |-> -1, repair_complexity_score |-> -1, parts_score |-> -1,
     vehicle_age |-> -1, theft_score |-> -1, anti_theft_feature_score |-> -1,
     crash_test_rating |-> -1, active_safety_features |-> -1, passive_safety_features |-> -1]

DefaultLocationInputs == [crime_level_factor |-> -1, anti_theft_adjustment |-> -1]

DefaultPolicyInputs == [coverage_type |-> None, add_ons |-> None]

DefaultDiscountsInputs == [discounts |-> None]

\* One attribute of a profile set to each small value, the others as given.
Varied(obj) == {[obj EXCEPT ![a] = v] : a \in DOMAIN obj, v \in -1..MaxScore}

\* The ages around the bands of calc_driver_risk.
BandAges == {24, 25, 64, 65}

DriverInputsSet ==
    Varied(TestDriverInputs) \cup {DefaultDriverInputs}
    \cup {[TestDriverInputs EXCEPT !.age = a] : a \in BandAges}

VehicleInputsSet == Varied(TestVehicleInputs) \cup {DefaultVehicleInputs}

LocationInputsSet == Varied(TestLocationInputs) \cup {DefaultLocationInputs}

\* Coverage types: the enumeration, two strings outside it, and None.
PolicyTypes == {None} \cup {Some(t) : t \in CoverageType \cup {"comprehensive", ""}}

\* Add-on lists: None, and the lists over the add-on keys and one unknown key.
AddOnLists == {None} \cup {Some(l) : l \in SeqsUpTo(AddOnKeys \cup {"towing"}, MaxAddOns)}

\* Discount lists: None, and the lists over the discount keys and one unknown key.
DiscountLists ==
    {None} \cup {Some(l) : l \in SeqsUpTo(DiscountKeys \cup {"loyalty"}, MaxDiscounts)}

PolicyInputsSet == {[coverage_type |-> t, add_ons |-> a] : t \in PolicyTypes, a \in AddOnLists}

\* The requests tried: the test request with one profile replaced, and with
\* every coverage type and discount list.
QuoteInputsSet ==
    {[TestQuoteInputs EXCEPT !.driver_inputs = d] : d \in DriverInputsSet}
    \cup {[TestQuoteInputs EXCEPT !.vehicle_inputs = v] : v \in VehicleInputsSet}
    \cup {[TestQuoteInputs EXCEPT !.location_inputs = l] : l \in LocationInputsSet}
    \cup {[TestQuoteInputs EXCEPT !.policy_inputs = p] : p \in PolicyInputsSet}
    \cup {[TestQuoteInputs EXCEPT !.policy_inputs.coverage_type = t,
                                  !.discount_inputs.discounts = ds] :
              t \in PolicyTypes, ds \in DiscountLists}

\* Scores handed to the aggregators directly: multiples of 0.5 and the
\* violation points of a clean record.
ScoreSet == {Lit(5 * k, 1) : k \in 0..MaxScore} \cup {calc_violation_points(0)}

\* The requests tried for repeated calls: every coverage type with every
\* discount list of at most one key, and the default driver.
RepeatQuoteInputsSet ==
    {[TestQuoteInputs EXCEPT !.policy_inputs.coverage_type = t,
                             !.discount_inputs.discounts = ds] :
         t \in PolicyTypes,
         ds \in {None, Some(<<>>)} \cup {Some(<<k>>) : k \in DiscountKeys \cup {"loyalty"}}}
    \cup {[TestQuoteInputs EXCEPT !.driver_inputs = DefaultDriverInputs]}

(***************************************************************************)
(* State                                                                   *)
(*                                                                         *)
(* The two module-level tables, and the call the caller is looking at: the *)
(* function and the arguments as passed, the QuoteInputs object as the     *)
(* call left it (None when the call took none), and what the call returned *)
(* or raised.  call.fn is "" between calls.                                *)
(* earlier is a history variable: an earlier calculate_quote call.         *)
(***************************************************************************)
VARIABLES POLICY_ADD_ON_MAP, POLICY_DISCOUNT_MAP, call, quote_inputs, outcome, earlier

vars == <<POLICY_ADD_ON_MAP, POLICY_DISCOUNT_MAP, call, quote_inputs, outcome, earlier>>

tables == <<POLICY_ADD_ON_MAP, POLICY_DISCOUNT_MAP>>

Init ==
    /\ POLICY_ADD_ON_MAP = Dict(PolicyAddOnMapDisplay)
    /\ POLICY_DISCOUNT_MAP = Dict(PolicyDiscountMapDisplay)
    /\ call = [fn |-> "", args |-> <<>>]
    /\ quote_inputs = None
    /\ outcome = NoOutcome
    /\ earlier = None

\* No call is in progress: the program is single-threaded and synchronous, so a
\* call starts only after the caller is done with the one before.
Idle == call.fn = ""

\* A calculate_quote call that writes the adjustment it computed back into the
\* shared table (not the code).
calculate_quote_call_writing_table(q) ==
    LET r == calculate_quote(POLICY_ADD_ON_MAP, POLICY_DISCOUNT_MAP, q)
        t == q.policy_inputs.coverage_type
    IN  /\ Idle
        /\ call' = [fn |-> "calculate_quote", args |-> <<q>>]
        /\ outcome' = r
        /\ quote_inputs' = Some(q)
        /\ POLICY_ADD_ON_MAP' =
              IF r.status = "return"
              THEN [POLICY_ADD_ON_MAP EXCEPT
                        ![Get(t)].weight = Get(r.value).weights.policy_adjustment]
              ELSE POLICY_ADD_ON_MAP
        /\ UNCHANGED <<POLICY_DISCOUNT_MAP, earlier>>

\* A calculate_quote call whose audit repairs what it warns about: every driver
\* attribute still at the default -1 is set to 0 in the request (not the code).
calculate_quote_call_audit_fixing(q) ==
    LET d == q.driver_inputs
        fixed == [a \in DOMAIN d |-> IF d[a] = -1 THEN 0 ELSE d[a]]
    IN  /\ Idle
        /\ call' = [fn |-> "calculate_quote", args |-> <<q>>]
        /\ outcome' = calculate_quote(POLICY_ADD_ON_MAP, POLICY_DISCOUNT_MAP, q)
        /\ quote_inputs' = Some([q EXCEPT !.driver_inputs = fixed])
        /\ UNCHANGED <<tables, earlier>>

\* calculate_quote(q): it reads the tables and the request and writes neither.
calculate_quote_call(q) ==
    /\ Idle
    /\ call' = [fn |-> "calculate_quote", args |-> <<q>>]
    /\ outcome' = calculate_quote(POLICY_ADD_ON_MAP, POLICY_DISCOUNT_MAP, q)
    /\ quote_inputs' = Some(q)
    /\ UNCHANGED <<tables, earlier>>

CalculateQuote == \E q \in QuoteInputsSet : calculate_quote_call(q)

CalcPolicyAdjustment ==
    \E policy_type \in PolicyTypes, add_ons \in AddOnLists :
        /\ Idle
        /\ call' = [fn |-> "calc_policy_adjustment", args |-> <<policy_type, add_ons>>]
        /\ outcome' = calc_policy_adjustment(POLICY_ADD_ON_MAP, policy_type, add_ons)
        /\ quote_inputs' = None
        /\ UNCHANGED <<tables, earlier>>

CalcDiscounts ==
    \E policy_type \in PolicyTypes, discounts \in DiscountLists :
        /\ Idle
        /\ call' = [fn |-> "calc_discounts", args |-> <<policy_type, discounts>>]
        /\ outcome' = calc_discounts(POLICY_DISCOUNT_MAP, policy_type, discounts)
        /\ quote_inputs' = None
        /\ UNCHANGED <<tables, earlier>>

CalcDriverRisk ==
    \E accident_points \in ScoreSet, violation_points \in ScoreSet,
       years_clean \in 0..MaxYearsClean, age \in -1..MaxAge :
        /\ Idle
        /\ call' = [fn |-> "calc_driver_risk",
                    args |-> <<accident_points, violation_points, years_clean, age>>]
        /\ outcome' = Return(calc_driver_risk(accident_points, violation_points,
                                              years_clean, age), <<>>)
        /\ quote_inputs' = None
        /\ UNCHANGED <<tables, earlier>>

CalcVehicleRisk ==
    \E repair_score \in ScoreSet, theft_score \in ScoreSet, saftey_score \in ScoreSet :
        /\ Idle
        /\ call' = [fn |-> "calc_vehicle_risk",
                    args |-> <<repair_score, theft_score, saftey_score>>]
        /\ outcome' = Return(calc_vehicle_risk(repair_score, theft_score, saftey_score), <<>>)
        /\ quote_inputs' = None
        /\ UNCHANGED <<tables, earlier>>

CalcLocationRisk ==
    \E accident_points \in ScoreSet, crime_Score \in ScoreSet :
        /\ Idle
        /\ call' = [fn |-> "calc_location_risk", args |-> <<accident_points, crime_Score>>]
        /\ outcome' = Return(calc_location_risk(accident_points, crime_Score), <<>>)
        /\ quote_inputs' = None
        /\ UNCHANGED <<tables, earlier>>

\* The caller is done with the outcome of the last call.
Done ==
    /\ ~Idle
    /\ call' = [fn |-> "", args |-> <<>>]
    /\ quote_inputs' = None
    /\ outcome' = NoOutcome
    /\ UNCHANGED <<tables, earlier>>

Next ==
    \/ Done
    \/ CalculateQuote
    \/ CalcPolicyAdjustment
    \/ CalcDiscounts
    \/ CalcDriverRisk
    \/ CalcVehicleRisk
    \/ CalcLocationRisk

Spec == Init /\ [][Next]_vars

\* Repeated calculate_quote calls, with one earlier call kept for comparison.
RepeatQuote == \E q \in RepeatQuoteInputsSet : calculate_quote_call(q)

\* History: keep the call the caller is looking at as the earlier call.
Remember ==
    /\ call.fn = "calculate_quote"
    /\ earlier' = Some([request |-> call.args[1], outcome |-> outcome])
    /\ UNCHANGED <<tables, call, quote_inputs, outcome>>

NextRepeat ==
    \/ Done
    \/ RepeatQuote
    \/ Remember

SpecRepeat == Init /\ [][NextRepeat]_vars

(***************************************************************************)
(* Properties                                                              *)
(***************************************************************************)

\* The call the caller is looking at, and what it returned.
Called(fn) == call.fn = fn
Returned == outcome.status = "return"
Value == Get(outcome.value)

\* The sum of tbl[k] over the elements k of a sequence of keys of tbl.
RECURSIVE SumSeq(_, _)
SumSeq(tbl, keys) ==
    IF keys = <<>> THEN Int2Num(0) ELSE Add(tbl[Head(keys)], SumSeq(tbl, Tail(keys)))

\* The sum of tbl[k] over a set of keys of tbl.
RECURSIVE SumSet(_, _)
SumSet(tbl, keys) ==
    IF keys = {} THEN Int2Num(0)
    ELSE LET k == CHOOSE x \in keys : TRUE
         IN  Add(tbl[k], SumSet(tbl, keys \ {k}))

\* The elements of a sequence that are keys of tbl, in order.
RECURSIVE Supported(_, _)
Supported(tbl, keys) ==
    IF keys = <<>> THEN <<>>
    ELSE (IF Head(keys) \in DOMAIN tbl THEN <<Head(keys)>> ELSE <<>>)
         \o Supported(tbl, Tail(keys))

Range(seq) == {seq[i] : i \in 1..Len(seq)}
DuplicateFree(seq) == Cardinality(Range(seq)) = Len(seq)

\* Whether an optional coverage type is a key of a table.
InTable(d, policy_type) == ~IsNone(policy_type) /\ Get(policy_type) \in DOMAIN d

\* C1 (as claimed): every calculate_quote call, also one whose coverage type is
\* not in the policy table, returns a QuoteResult; for such a coverage type the
\* result carries the sentinel -1 as its policy adjustment.
C1_NeverAborts ==
    Called("calculate_quote") =>
        /\ Returned
        /\ ~InTable(POLICY_ADD_ON_MAP, call.args[1].policy_inputs.coverage_type)
              => Value.weights.policy_adjustment = Int2Num(-1)

\* C2 (as claimed): for a coverage type of the policy table and any add-on list,
\* calc_policy_adjustment returns the base weight plus the weights of all the
\* requested add-ons the coverage supports, those after an unsupported one too.
C2_SkipsUnsupportedOnly ==
    (/\ Called("calc_policy_adjustment")
     /\ InTable(POLICY_ADD_ON_MAP, call.args[1])
     /\ ~IsNone(call.args[2])) =>
        LET policy_obj == POLICY_ADD_ON_MAP[Get(call.args[1])]
        IN  /\ Returned
            /\ Value = Add(policy_obj.weight,
                           SumSeq(policy_obj.add_ons,
                                  Supported(policy_obj.add_ons, Get(call.args[2]))))

\* C3: for any coverage type and any duplicate-free list of discount keys,
\* calc_discounts returns the sum of the fractions of the requested keys that
\* are in the coverage's discount sub-table (liability with safe_driver: 0.0);
\* for a coverage type that is not in the discount table it returns 0.0.
C3_DiscountSum ==
    Called("calc_discounts") =>
        /\ Returned
        /\ ~InTable(POLICY_DISCOUNT_MAP, call.args[1]) => Value = Int2Num(0)
        /\ (/\ InTable(POLICY_DISCOUNT_MAP, call.args[1])
            /\ ~IsNone(call.args[2])
            /\ DuplicateFree(Get(call.args[2]))) =>
               LET discount_obj == POLICY_DISCOUNT_MAP[Get(call.args[1])]
               IN  Value = SumSet(discount_obj,
                                  Range(Get(call.args[2])) \cap DOMAIN discount_obj)
        /\ call.args = <<Some(CoverageType_LIABILITY), Some(<<DiscountKeys_SAFE_DRIVER>>)>>
               => Value = Int2Num(0)

\* C3 witness: liability asked for safe_driver (not offered) and then
\* multi_policy: the first is skipped and the second counted.
C3_Witness ==
    /\ Called("calc_discounts")
    /\ call.args = <<Some(CoverageType_LIABILITY),
                     Some(<<DiscountKeys_SAFE_DRIVER, DiscountKeys_MULTI_POLICY>>)>>
    /\ Returned
    /\ Value = Lit(1, 1)

\* C4: when calculate_quote returns (the coverage type is in both tables), the
\* result has base rate 320, gross quote = base rate x driver risk x vehicle
\* risk x location risk x policy adjustment over the factors of its breakdown,
\* discount amount = gross quote x discount fraction, and net quote = gross
\* quote - discount amount.
C4_QuoteArithmetic ==
    (Called("calculate_quote") /\ Returned) =>
        LET w == Value.weights
        IN  /\ Value.base_rate = Int2Num(320)
            /\ Value.original_quote =
                  Mul(Mul(Mul(Mul(Value.base_rate, w.driver_risk), w.vehicle_risk),
                          w.location_risk), w.policy_adjustment)
            /\ Value.total_discount = Mul(Value.original_quote, w.discount)
            /\ Value.quote = Sub(Value.original_quote, Value.total_discount)

\* C4 witness: a quote for a coverage type of both tables with a discount taken
\* off: the net quote is below the gross quote.
C4_Witness ==
    /\ Called("calculate_quote")
    /\ Returned
    /\ InTable(POLICY_ADD_ON_MAP, call.args[1].policy_inputs.coverage_type)
    /\ InTable(POLICY_DISCOUNT_MAP, call.args[1].policy_inputs.coverage_type)
    /\ call.args[1].policy_inputs.coverage_type = Some(CoverageType_LIABILITY)
    /\ call.args[1].discount_inputs.discounts = Some(<<DiscountKeys_MULTI_POLICY>>)
    /\ Value.weights.discount = Lit(1, 1)
    /\ Less(Value.quote, Value.original_quote)

C6_Deterministic ==
    (/\ Called("calculate_quote")
     /\ ~IsNone(earlier)
     /\ Get(earlier).request = call.args[1]) => outcome = Get(earlier).outcome

\* C6 witness: a request was quoted, remembered, and quoted again after the
\* caller was done with the first call; both calls returned.
C6_Witness ==
    /\ Called("calculate_quote")
    /\ ~IsNone(earlier)
    /\ Get(earlier).request = call.args[1]
    /\ Get(earlier).outcome.status = "return"
    /\ Returned

\* C7: for a coverage type of the policy table and a list of add-ons it supports,
\* calc_policy_adjustment returns the base weight plus the sum of the listed
\* weights; full_coverage with roadside_assistance and rental_reimbursement
\* gives 1.75.
C7_AdjustmentSum ==
    (/\ Called("calc_policy_adjustment")
     /\ InTable(POLICY_ADD_ON_MAP, call.args[1])
     /\ ~IsNone(call.args[2])
     /\ Range(Get(call.args[2])) \subseteq DOMAIN POLICY_ADD_ON_MAP[Get(call.args[1])].add_ons) =>
        LET policy_obj == POLICY_ADD_ON_MAP[Get(call.args[1])]
        IN  /\ Returned
            /\ Value = Add(policy_obj.weight, SumSeq(policy_obj.add_ons, Get(call.args[2])))
            /\ call.args = <<Some(CoverageType_FULL_COVERAGE),
                             Some(<<AddOnKeys_ROADSIDE_ASSISTANCE,
                                    AddOnKeys_RENTAL_REIMBURSEMENT>>)>>
                  => Value = Lit(175, 2)

\* C7 witness: full_coverage with roadside_assistance and rental_reimbursement
\* has returned 1.75.
C7_Witness ==
    /\ Called("calc_policy_adjustment")
    /\ call.args = <<Some(CoverageType_FULL_COVERAGE),
                     Some(<<AddOnKeys_ROADSIDE_ASSISTANCE, AddOnKeys_RENTAL_REIMBURSEMENT>>)>>
    /\ Returned
    /\ Value = Lit(175, 2)

\* calc_driver_risk without its age adjustment:
\* 1 + 0.02 accident points + 0.015 violation points + 0.0001 years clean.
DriverRiskBeforeAge(accident_points, violation_points, years_clean) ==
    Add(Add(Add(Int2Num(1), Mul(Lit(2, 2), accident_points)),
            Mul(Lit(15, 3), violation_points)),
        Mul(Lit(1, 4), Int2Num(years_clean)))

\* C8: calc_driver_risk adds 0.15 for an age below 25, nothing for an age from
\* 25 to 64 and 0.10 for an age of 65 or more.
C8_AgeBands ==
    Called("calc_driver_risk") =>
        LET age == call.args[4]
            adjustment == Sub(Value, DriverRiskBeforeAge(call.args[1], call.args[2],
                                                         call.args[3]))
        IN  /\ Returned
            /\ age < 25 => adjustment = Lit(15, 2)
            /\ (25 <= age /\ age <= 64) => adjustment = Int2Num(0)
            /\ age >= 65 => adjustment = Lit(10, 2)

\* C8 witness: calc_driver_risk was called at age 65 and at no other cost than
\* the band's: the result is 1.10.
C8_Witness ==
    /\ Called("calc_driver_risk")
    /\ call.args = <<Int2Num(0), Int2Num(0), 0, 65>>
    /\ Returned
    /\ Value = Lit(110, 2)

\* C9: calc_driver_risk, calc_vehicle_risk and calc_location_risk return exactly
\* 1.0 when every score passed is zero, the age is in [25, 65) and years_clean
\* is 0.
C9_NeutralAtZero ==
    /\ (/\ Called("calc_driver_risk")
        /\ call.args[1] = Int2Num(0)
        /\ call.args[2] = Int2Num(0)
        /\ call.args[3] = 0
        /\ 25 <= call.args[4]
        /\ call.args[4] < 65) => (Returned /\ Value = Int2Num(1))
    /\ (Called("calc_vehicle_risk") /\ call.args = <<Int2Num(0), Int2Num(0), Int2Num(0)>>)
           => (Returned /\ Value = Int2Num(1))
    /\ (Called("calc_location_risk") /\ call.args = <<Int2Num(0), Int2Num(0)>>)
           => (Returned /\ Value = Int2Num(1))

\* C9 witness: calc_location_risk was called with zero accident points and a
\* zero crime score and returned 1.
C9_Witness ==
    /\ Called("calc_location_risk")
    /\ call.args = <<Int2Num(0), Int2Num(0)>>
    /\ Returned
    /\ Value = Int2Num(1)

\* The number of pairs of a dict display with the key k.
Entries(display, k) == Cardinality({i \in 1..Len(display) : display[i][1] = k})

\* C10: every coverage type of the enumeration has exactly one entry in the
\* policy table and exactly one in the discount table, in every state reached
\* by resolver and calculate_quote calls.
C10_OneEntryPerCoverage ==
    \A c \in CoverageType :
        /\ c \in DOMAIN POLICY_ADD_ON_MAP
        /\ c \in DOMAIN POLICY_DISCOUNT_MAP
        /\ Entries(PolicyAddOnMapDisplay, c) = 1
        /\ Entries(PolicyDiscountMapDisplay, c) = 1

\* C10 witness: calculate_quote has returned a quote for collision_only, having
\* used both resolvers, and the tables hold collision_only.
C10_Witness ==
    /\ Called("calculate_quote")
    /\ call.args[1].policy_inputs.coverage_type = Some(CoverageType_COLLISION_ONLY)
    /\ Returned
    /\ CoverageType_COLLISION_ONLY \in DOMAIN POLICY_ADD_ON_MAP
    /\ CoverageType_COLLISION_ONLY \in DOMAIN POLICY_DISCOUNT_MAP

\* C11: in a calculate_quote result the theft score consumes the location risk
\* of the same request, theft score = theft rate + (1 + 0.02 x accident points
\* + 0.025 x crime score) - anti-theft feature score, and the vehicle risk
\* consumes that theft score.  (calculate_quote is one sequential function:
\* a value another value is computed from was computed before it.)
C11_TheftAfterLocation ==
    (Called("calculate_quote") /\ Returned) =>
        LET d == call.args[1].driver_inputs
            v == call.args[1].vehicle_inputs
            l == call.args[1].location_inputs
            accident_points ==
                calc_accident_points(d.at_fault_major, d.at_fault_minor, d.no_fault,
                                     d.hit_n_runs, d.duis)
            crime_score == Int2Num(l.crime_level_factor - l.anti_theft_adjustment)
            location_risk ==
                Add(Add(Int2Num(1), Mul(Lit(2, 2), accident_points)),
                    Mul(Lit(25, 3), crime_score))
        IN  /\ Value.weights.location_risk = location_risk
            /\ Value.scores.theft_score =
                  Sub(Add(Int2Num(v.theft_score), Value.weights.location_risk),
                      Int2Num(v.anti_theft_feature_score))
            /\ Value.scores.theft_score =
                  Sub(Add(Int2Num(v.theft_score), location_risk),
                      Int2Num(v.anti_theft_feature_score))
            /\ Value.weights.vehicle_risk =
                  Add(Int2Num(1),
                      Mul(Sub(Add(Value.scores.repair_score, Value.scores.theft_score),
                              Value.scores.safety_score), Lit(1, 2)))

\* C11 witness: a quote for the test request with crime level 0: the location
\* risk is 1.06 and the theft score 5 + 1.06 - 2 = 4.06.
C11_Witness ==
    /\ Called("calculate_quote")
    /\ Returned
    /\ call.args[1].location_inputs = [crime_level_factor |-> 0, anti_theft_adjustment |-> 2]
    /\ Value.weights.location_risk = Lit(106, 2)
    /\ Value.scores.theft_score = Lit(406, 2)

\* C12: a step that makes a calculate_quote call, its audit of the profiles
\* included, leaves both lookup tables as they were and the request's profiles
\* equal to the ones passed in; besides the outcome (the result and the log
\* lines) it changes nothing.
C12_QuoteWritesNothing ==
    [][(call.fn = "" /\ call'.fn = "calculate_quote") =>
          /\ POLICY_ADD_ON_MAP' = POLICY_ADD_ON_MAP
          /\ POLICY_DISCOUNT_MAP' = POLICY_DISCOUNT_MAP
          /\ quote_inputs' = Some(call'.args[1])
          /\ earlier' = earlier]_vars

\* C12 witness: a quote was returned for a request whose driver profile is all
\* defaults; the audit logged a default-value warning, and the profiles and the
\* tables are what they were before the call.
C12_Witness ==
    /\ Called("calculate_quote")
    /\ Returned
    /\ call.args[1].driver_inputs = DefaultDriverInputs
    /\ \E i \in 1..Len(outcome.log) :
          /\ outcome.log[i][1] = "WARNING"
          /\ outcome.log[i][2] = "is using default value -1"
    /\ quote_inputs = Some(call.args[1])
    /\ POLICY_ADD_ON_MAP = Dict(PolicyAddOnMapDisplay)
    /\ POLICY_DISCOUNT_MAP = Dict(PolicyDiscountMapDisplay)

\* C13: with the accident points, violation points and age fixed, the driver
\* risk of years_clean clean years is the driver risk of one year fewer plus
\* 0.0001, hence the zero-year risk plus 0.0001 x years_clean, and it is never
\* below the risk of any smaller number of clean years.
C13_CleanYearsRaiseRisk ==
    (Called("calc_driver_risk") /\ Returned) =>
        LET accident_points == call.args[1]
            violation_points == call.args[2]
            years_clean == call.args[3]
            age == call.args[4]
            risk(y) == calc_driver_risk(accident_points, violation_points, y, age)
        IN  /\ years_clean >= 1 => Sub(Value, risk(years_clean - 1)) = Lit(1, 4)
            /\ Value = Add(risk(0), Mul(Lit(1, 4), Int2Num(years_clean)))
            /\ \A y \in 0..years_clean : Leq(risk(y), Value)

\* C13 witness: a driver of 30 with no points and two clean years: the risk is
\* 1.0002, against 1.0001 for one clean year and 1 for none.
C13_Witness ==
    /\ Called("calc_driver_risk")
    /\ Returned
    /\ call.args = <<Int2Num(0), Int2Num(0), 2, 30>>
    /\ Value = Lit(10002, 4)
    /\ calc_driver_risk(Int2Num(0), Int2Num(0), 1, 30) = Lit(10001, 4)
    /\ calc_driver_risk(Int2Num(0), Int2Num(0), 0, 30) = Int2Num(1)

C15_AtLeastBaseWeight ==
    (Called("calc_policy_adjustment") /\ InTable(POLICY_ADD_ON_MAP, call.args[1])) =>
        LET policy_weight == POLICY_ADD_ON_MAP[Get(call.args[1])].weight
        IN  /\ Returned
            /\ Leq(policy_weight, Value)
            /\ Leq(Int2Num(1), policy_weight)
            /\ Leq(Int2Num(1), Value)
            /\ Value # Int2Num(-1)
            /\ \A i \in 1..Len(outcome.log) :
                  outcome.log[i][2] # "Could not extract policy weight due to invalid key"

\* C15 witness: full coverage with no add-on list at all returns its base
\* weight, 1.5.
C15_Witness ==
    /\ Called("calc_policy_adjustment")
    /\ call.args = <<Some(CoverageType_FULL_COVERAGE), None>>
    /\ Returned
    /\ Value = Lit(15, 1)

====
